---------------------------- MODULE Spec2Model ----------------------------
(***************************************************************************)
(* Model of docs/content/pre-process-datasets.ipynb: the DatasetToPreprocess *)
(* dataclass with its four naming properties, the upload_datasets helper    *)
(* and the read-back check cell.                                            *)
(*                                                                          *)
(* A Python str is a sequence of one-character strings.  A value of type    *)
(* `T | None` is a sequence of length at most one: << >> is None and <<v>>  *)
(* is the value v.  An omitted keyword argument is written the same way.    *)
(***************************************************************************)
EXTENDS Naturals, Sequences, FiniteSets, TLC

VARIABLES
    constructed,            \* the constructor arguments of each Descriptor (history)
    datasets,               \* the list of DatasetToPreprocess objects
    derived,                \* per Descriptor: the property values last read from it
    assigns,                \* number of field assignments made so far
    pc,                     \* position of upload_datasets
    job,                    \* index of the list element the for loop is at
    repositories_updating,  \* local of upload_datasets
    tokenizer,              \* local of upload_datasets
    text_dataset,           \* local of upload_datasets
    stdout,                 \* what upload_datasets printed, one entry per print
    calls,                  \* collaborator calls made, in order, with their outcome
    hub,                    \* repo ids pushed to the hub, in order of completion
    error,                  \* the exception that left upload_datasets, if any
    downloaded_dataset,     \* check cell: the records of the train split
    cpc,                    \* check cell: position
    i,                      \* check cell: the counter i
    pos,                    \* check cell: records the iterator has yielded
    printed                 \* check cell: what the loop printed

nameVars == <<constructed, datasets, derived, assigns>>
uploadVars == <<pc, job, repositories_updating, tokenizer, text_dataset,
                stdout, calls, hub, error>>
checkVars == <<downloaded_dataset, cpc, i, pos, printed>>
vars == <<nameVars, uploadVars, checkVars>>

---------------------------------------------------------------------------
(* Bounds of the model. *)

\* longest source_path / tokenizer_name enumerated over Alphabet
MaxLen == 3

\* longest Descriptor list enumerated for upload_datasets
MaxJobs == 2

\* most field assignments made to the notebook's Descriptors
MaxAssign == 2

\* most records in the downloaded train split
MaxRecords == 4

---------------------------------------------------------------------------
(* Strings. *)

None == << >>
Some(v) == << v >>
Omitted == << >>

Alphabet == {"a", "/", "-"}

RECURSIVE StringsOfLen(_)
StringsOfLen(n) ==
    IF n = 0 THEN { << >> }
    ELSE { Append(s, c) : s \in StringsOfLen(n - 1), c \in Alphabet }

Strings(n) == UNION { StringsOfLen(k) : k \in 0..n }

StartsWith(s, prefix) ==
    /\ Len(prefix) <= Len(s)
    /\ SubSeq(s, 1, Len(prefix)) = prefix

Contains(s, part) ==
    \E p \in 1..(Len(s) + 1) :
        /\ p + Len(part) - 1 <= Len(s)
        /\ SubSeq(s, p, p + Len(part) - 1) = part

\* str.replace(old, new, 1): only the leftmost occurrence is replaced.
RECURSIVE replace_first(_, _, _)
replace_first(s, old, new) ==
    IF s = << >> THEN << >>
    ELSE IF StartsWith(s, old)
         THEN new \o SubSeq(s, Len(old) + 1, Len(s))
         ELSE <<Head(s)>> \o replace_first(Tail(s), old, new)

\* str.replace(old, new) for a non-empty old: every non-overlapping occurrence,
\* found left to right, is replaced.
RECURSIVE replace(_, _, _)
replace(s, old, new) ==
    IF s = << >> THEN << >>
    ELSE IF StartsWith(s, old)
         THEN new \o replace(SubSeq(s, Len(old) + 1, Len(s)), old, new)
         ELSE <<Head(s)>> \o replace(Tail(s), old, new)

\* sep.join(items)
RECURSIVE join(_, _)
join(sep, items) ==
    IF items = << >> THEN << >>
    ELSE IF Len(items) = 1 THEN items[1]
    ELSE items[1] \o sep \o join(sep, Tail(items))

---------------------------------------------------------------------------
(* Literals of the notebook. *)

DefaultUsername == <<"a", "l", "a", "n", "c", "o", "o", "n", "e", "y">>

SaePrefix == <<"s", "a", "e", "-">>

TokenizerInfix == <<"-", "t", "o", "k", "e", "n", "i", "z", "e", "r", "-">>

TinyStories == <<"r", "o", "n", "e", "n", "e", "l", "d", "a", "n", "/", "T", "i", "n", "y", "S", "t", "o", "r", "i", "e", "s">>

Gpt2 == <<"g", "p", "t", "2">>

Pile == <<"m", "o", "n", "o", "l", "o", "g", "y", "/", "p", "i", "l", "e", "-", "u", "n", "c", "o", "p", "y", "r", "i", "g", "h", "t", "e", "d">>

NeoX == <<"E", "l", "e", "u", "t", "h", "e", "r", "A", "I", "/", "g", "p", "t", "-", "n", "e", "o", "x", "-", "2", "0", "b">>

TinyTrain == <<"T", "i", "n", "y", "S", "t", "o", "r", "i", "e", "s", "V", "2", "-", "G", "P", "T", "4", "-", "t", "r", "a", "i", "n", ".", "t", "x", "t">>

TinyValid == <<"T", "i", "n", "y", "S", "t", "o", "r", "i", "e", "s", "V", "2", "-", "G", "P", "T", "4", "-", "v", "a", "l", "i", "d", ".", "t", "x", "t">>

Zst00 == <<"0", "0", ".", "j", "s", "o", "n", "l", ".", "z", "s", "t">>

Zst01 == <<"0", "1", ".", "j", "s", "o", "n", "l", ".", "z", "s", "t">>

Train == <<"t", "r", "a", "i", "n">>

\* The arguments of the three constructor calls of the upload cell.
NotebookArgs ==
    << [source_path |-> TinyStories, tokenizer_name |-> Gpt2,
        data_dir |-> Omitted, data_files |-> Some(<<TinyTrain, TinyValid>>),
        hugging_face_username |-> Omitted],
       [source_path |-> Pile, tokenizer_name |-> Gpt2,
        data_dir |-> Some(Train), data_files |-> Some(<<Zst00>>),
        hugging_face_username |-> Omitted],
       [source_path |-> Pile, tokenizer_name |-> NeoX,
        data_dir |-> Some(Train), data_files |-> Some(<<Zst00, Zst01>>),
        hugging_face_username |-> Omitted] >>

---------------------------------------------------------------------------
(* DatasetToPreprocess. *)

\* The dataclass's generated __init__: fields from the arguments, defaults
\* for the omitted ones.
DatasetToPreprocess(args) ==
    [source_path |-> args.source_path,
     tokenizer_name |-> args.tokenizer_name,
     data_dir |-> IF args.data_dir = Omitted THEN None ELSE args.data_dir,
     data_files |-> IF args.data_files = Omitted THEN None ELSE args.data_files,
     hugging_face_username |->
        IF args.hugging_face_username = Omitted
        THEN DefaultUsername
        ELSE args.hugging_face_username[1]]

source_alias_first_only(self) == replace_first(self.source_path, <<"/">>, <<"-">>)

source_alias(self) == replace(self.source_path, <<"/">>, <<"-">>)

tokenizer_alias(self) == replace(self.tokenizer_name, <<"/">>, <<"-">>)

destination_repo_name_swapped(self) ==
    SaePrefix \o tokenizer_alias(self) \o TokenizerInfix \o source_alias(self)

destination_repo_name_dash(self) ==
    SaePrefix \o source_alias(self) \o <<"-">> \o tokenizer_alias(self)

destination_repo_name_with_dir(self) ==
    SaePrefix \o source_alias(self)
        \o (IF self.data_dir = None THEN << >> ELSE <<"-">> \o self.data_dir[1])
        \o TokenizerInfix \o tokenizer_alias(self)

destination_repo_name(self) ==
    SaePrefix \o source_alias(self) \o TokenizerInfix \o tokenizer_alias(self)

destination_repo_id(self) ==
    self.hugging_face_username \o <<"/">> \o destination_repo_name(self)

\* Reading the four properties of one Descriptor.
Properties(self) ==
    [source_alias |-> source_alias(self),
     tokenizer_alias |-> tokenizer_alias(self),
     destination_repo_name |-> destination_repo_name(self),
     destination_repo_id |-> destination_repo_id(self)]

---------------------------------------------------------------------------
(* The Descriptor lists the model starts from. *)

ArgsOver(paths, names, dirs, files, users) ==
    [source_path : paths, tokenizer_name : names, data_dir : dirs,
     data_files : files, hugging_face_username : users]

SomeDirs == {Omitted, Some(<<"d">>)}

SomeFiles == {Omitted, Some(<< <<"f">> >>)}

SomeUsers == {Omitted, Some(<<"u">>)}

\* One Descriptor, its two names being every string over Alphabet up to MaxLen.
SingleArgs == ArgsOver(Strings(MaxLen), Strings(MaxLen), SomeDirs, SomeFiles, SomeUsers)

\* Paths and names for pairs of Descriptors: with and without "/", and with the
\* text of TokenizerInfix (whole, or all but its last character) inside.
PairPaths ==
    { <<"a">>, <<"a", "/", "b">>, <<"a", "-", "b">>,
      <<"a">> \o TokenizerInfix \o <<"b">>,
      <<"a">> \o SubSeq(TokenizerInfix, 1, Len(TokenizerInfix) - 1),
      <<"a", "/">> \o SubSeq(TokenizerInfix, 2, Len(TokenizerInfix) - 1) }

PairNames ==
    { <<"c">>, <<"b", "/", "c">>,
      <<"b">> \o TokenizerInfix \o <<"c">>,
      SubSeq(TokenizerInfix, 2, Len(TokenizerInfix)) \o <<"c">> }

PairArgs == ArgsOver(PairPaths, PairNames, SomeDirs, SomeFiles, SomeUsers)

\* Descriptors for upload_datasets: two paths, two tokenizers, every filter
\* combination under the default account, and another account without filters.
UploadPaths == { <<"a", "/", "b">>, <<"c">> }

UploadNames == { <<"g">>, <<"E", "/", "n">> }

UploadArgs ==
    ArgsOver(UploadPaths, UploadNames, SomeDirs, SomeFiles, {Omitted})
        \cup ArgsOver(UploadPaths, UploadNames, {Omitted}, {Omitted}, {Some(<<"u">>)})

---------------------------------------------------------------------------
(* Initial states. *)

\* The Descriptors as constructed from argsList; nothing read or assigned yet.
Constructed(argsList) ==
    /\ constructed = argsList
    /\ datasets = [k \in 1..Len(argsList) |-> DatasetToPreprocess(argsList[k])]
    /\ derived = [k \in 1..Len(argsList) |-> None]
    /\ assigns = 0

UploadNotCalled ==
    /\ pc = "idle"
    /\ job = 0
    /\ repositories_updating = << >>
    /\ tokenizer = None
    /\ text_dataset = None
    /\ stdout = << >>
    /\ calls = << >>
    /\ hub = << >>
    /\ error = None

CheckNotRun ==
    /\ downloaded_dataset = [train |-> << >>]
    /\ cpc = "off"
    /\ i = 0
    /\ pos = 0
    /\ printed = << >>

---------------------------------------------------------------------------
(* Reading the properties of a Descriptor. *)

ReadProperties(k) ==
    /\ derived[k] = None
    /\ derived' = [derived EXCEPT ![k] = Some(Properties(datasets[k]))]
    /\ UNCHANGED <<constructed, datasets, assigns, uploadVars, checkVars>>

\* One Descriptor over SingleArgs, one of the notebook's, or a pair over PairArgs.
InitNaming ==
    /\ \/ \E a \in SingleArgs : Constructed(<<a>>)
       \/ \E k \in 1..Len(NotebookArgs) : Constructed(<<NotebookArgs[k]>>)
       \/ \E a, b \in PairArgs : Constructed(<<a, b>>)
    /\ UploadNotCalled
    /\ CheckNotRun

NextNaming == \E k \in 1..Len(datasets) : ReadProperties(k)

SpecNaming == InitNaming /\ [][NextNaming]_vars

---------------------------------------------------------------------------
(* upload_datasets.  Each collaborator call is one step: the call is         *)
(* synchronous, and it either returns or raises, which the step chooses.     *)
(* An exception is caught nowhere, so it leaves upload_datasets.             *)

AnnounceSeparator == <<"U", "p", "d", "a", "t", "i", "n", "g", " ", "r", "e", "p", "o", "s", "i", "t", "o", "r", "i", "e", "s", ":", "\n", "\n">>

ProcessingLabel == <<"P", "r", "o", "c", "e", "s", "s", "i", "n", "g", " ", "d", "a", "t", "a", "s", "e", "t", ":", " ">>

SizeLabel == <<"S", "i", "z", "e", ":", " ">>

InfoLabel == <<"I", "n", "f", "o", ":", " ">>

\* print(*args): one entry of stdout holding the arguments.
print(out, args) == Append(out, args)

\* The exception raised by collaborator fn.
Raised(fn) == Some(fn)

\* The list comprehension of the first statement.
RepositoryIdsAllButLast(ds) ==
    [k \in 1..(IF Len(ds) = 0 THEN 0 ELSE Len(ds) - 1) |-> destination_repo_id(ds[k])]

RepositoryIds(ds) == [k \in 1..Len(ds) |-> destination_repo_id(ds[k])]

\* The announcement, with a tokenizer loaded ahead of the loop.
AnnounceLoadingTokenizer ==
    /\ pc = "idle"
    /\ repositories_updating' = RepositoryIds(datasets)
    /\ stdout' = print(stdout, <<join(AnnounceSeparator, repositories_updating')>>)
    /\ calls' = Append(calls, [fn |-> "AutoTokenizer.from_pretrained", job |-> 0,
                               args |-> <<Gpt2>>, ok |-> TRUE])
    /\ pc' = "for"
    /\ UNCHANGED <<job, tokenizer, text_dataset, hub, error, nameVars, checkVars>>

\* The announcement, with each source_path normalised in place.
AnnounceNormalising ==
    /\ pc = "idle"
    /\ repositories_updating' = RepositoryIds(datasets)
    /\ stdout' = print(stdout, <<join(AnnounceSeparator, repositories_updating')>>)
    /\ datasets' = [k \in 1..Len(datasets) |->
                       [datasets[k] EXCEPT !.source_path = source_alias(datasets[k])]]
    /\ pc' = "for"
    /\ UNCHANGED <<job, tokenizer, text_dataset, calls, hub, error,
                   constructed, derived, assigns, checkVars>>

\* Entry and the two statements before the loop.  The adjacent literals
\* "Updating repositories:\n" "\n" are one string, the receiver of join.
Announce ==
    /\ pc = "idle"
    /\ repositories_updating' = RepositoryIds(datasets)
    /\ stdout' = print(stdout, <<join(AnnounceSeparator, repositories_updating')>>)
    /\ pc' = "for"
    /\ UNCHANGED <<job, tokenizer, text_dataset, calls, hub, error, nameVars, checkVars>>

\* `for dataset in datasets_to_preprocess:` and the first print of the body.
ForDataset ==
    /\ pc = "for"
    /\ \/ /\ job < Len(datasets)
          /\ job' = job + 1
          /\ stdout' = print(stdout, <<ProcessingLabel, datasets[job'].source_path>>)
          /\ pc' = "from_pretrained"
       \/ /\ job >= Len(datasets)
          /\ pc' = "returned"
          /\ UNCHANGED <<job, stdout>>
    /\ UNCHANGED <<repositories_updating, tokenizer, text_dataset, calls, hub, error,
                   nameVars, checkVars>>

Call(fn, args, ok) == [fn |-> fn, job |-> job, args |-> args, ok |-> ok]

\* A failed tokenizer lookup is skipped over and the loop goes on.
FromPretrainedContinueOnError ==
    /\ pc = "from_pretrained"
    /\ \E ok \in BOOLEAN :
        /\ calls' = Append(calls, Call("AutoTokenizer.from_pretrained",
                                       <<datasets[job].tokenizer_name>>, ok))
        /\ IF ok
           THEN /\ tokenizer' = Some([pretrained |-> datasets[job].tokenizer_name])
                /\ pc' = "TextDataset"
           ELSE /\ pc' = "for"
                /\ UNCHANGED tokenizer
    /\ UNCHANGED <<job, repositories_updating, text_dataset, stdout, hub, error,
                   nameVars, checkVars>>

\* tokenizer = AutoTokenizer.from_pretrained(dataset.tokenizer_name)
FromPretrained ==
    /\ pc = "from_pretrained"
    /\ \E ok \in BOOLEAN :
        /\ calls' = Append(calls, Call("AutoTokenizer.from_pretrained",
                                       <<datasets[job].tokenizer_name>>, ok))
        /\ IF ok
           THEN /\ tokenizer' = Some([pretrained |-> datasets[job].tokenizer_name])
                /\ pc' = "TextDataset"
                /\ UNCHANGED error
           ELSE /\ pc' = "raised"
                /\ error' = Raised("AutoTokenizer.from_pretrained")
                /\ UNCHANGED tokenizer
    /\ UNCHANGED <<job, repositories_updating, text_dataset, stdout, hub,
                   nameVars, checkVars>>

\* text_dataset = TextDataset(dataset_path=..., tokenizer=..., pre_download=True,
\*                            dataset_files=..., dataset_dir=...)
TextDataset ==
    /\ pc = "TextDataset"
    /\ \E ok \in BOOLEAN :
        LET args == [dataset_path |-> datasets[job].source_path,
                     tokenizer |-> tokenizer[1],
                     pre_download |-> TRUE,
                     dataset_files |-> datasets[job].data_files,
                     dataset_dir |-> datasets[job].data_dir]
        IN
        /\ calls' = Append(calls, Call("TextDataset", args, ok))
        /\ IF ok
           THEN /\ text_dataset' = Some([built_from |-> args])
                /\ pc' = "info"
                /\ UNCHANGED error
           ELSE /\ pc' = "raised"
                /\ error' = Raised("TextDataset")
                /\ UNCHANGED text_dataset
    /\ UNCHANGED <<job, repositories_updating, tokenizer, stdout, hub,
                   nameVars, checkVars>>

\* The two prints of the dataset's size and info.
PrintInfo ==
    /\ pc = "info"
    /\ stdout' = print(print(stdout,
                    <<SizeLabel, [size_in_bytes_of |-> text_dataset[1]]>>),
                    <<InfoLabel, [info_of |-> text_dataset[1]]>>)
    /\ pc' = "push"
    /\ UNCHANGED <<job, repositories_updating, tokenizer, text_dataset, calls, hub,
                   error, nameVars, checkVars>>

\* The push goes to the next Descriptor's repo.
PushOffByOne ==
    /\ pc = "push"
    /\ \E ok \in BOOLEAN :
        LET repo_id == destination_repo_id(
                           datasets[IF job < Len(datasets) THEN job + 1 ELSE 1])
        IN
        /\ calls' = Append(calls, Call("push_to_hugging_face_hub",
                                       [repo_id |-> repo_id], ok))
        /\ IF ok
           THEN /\ hub' = Append(hub, [repo_id |-> repo_id, dataset |-> text_dataset[1]])
                /\ pc' = "for"
                /\ UNCHANGED error
           ELSE /\ pc' = "raised"
                /\ error' = Raised("push_to_hugging_face_hub")
                /\ UNCHANGED hub
    /\ UNCHANGED <<job, repositories_updating, tokenizer, text_dataset, stdout,
                   nameVars, checkVars>>

\* text_dataset.push_to_hugging_face_hub(repo_id=dataset.destination_repo_id)
Push ==
    /\ pc = "push"
    /\ \E ok \in BOOLEAN :
        LET repo_id == destination_repo_id(datasets[job]) IN
        /\ calls' = Append(calls, Call("push_to_hugging_face_hub",
                                       [repo_id |-> repo_id], ok))
        /\ IF ok
           THEN /\ hub' = Append(hub, [repo_id |-> repo_id, dataset |-> text_dataset[1]])
                /\ pc' = "for"
                /\ UNCHANGED error
           ELSE /\ pc' = "raised"
                /\ error' = Raised("push_to_hugging_face_hub")
                /\ UNCHANGED hub
    /\ UNCHANGED <<job, repositories_updating, tokenizer, text_dataset, stdout,
                   nameVars, checkVars>>

upload_datasets ==
    \/ Announce
    \/ ForDataset
    \/ FromPretrained
    \/ TextDataset
    \/ PrintInfo
    \/ Push

\* Every list of up to MaxJobs Descriptors over UploadArgs, or the notebook's list.
Init ==
    /\ \/ \E n \in 0..MaxJobs :
              \E argsList \in [1..n -> UploadArgs] : Constructed(argsList)
       \/ Constructed(NotebookArgs)
    /\ UploadNotCalled
    /\ CheckNotRun

Next == upload_datasets

Spec == Init /\ [][Next]_vars

---------------------------------------------------------------------------
(* Assignment to a field of a constructed Descriptor.  The class is declared  *)
(* with a bare @dataclass (not frozen), so the generated class keeps the      *)
(* ordinary attribute assignment.  The notebook's own list is assigned to,    *)
(* between its construction and the call of upload_datasets.                  *)

AssignValues ==
    [source_path |-> { <<"x">> },
     tokenizer_name |-> { <<"y">> },
     data_dir |-> { None, Some(<<"x">>) },
     data_files |-> { None },
     hugging_face_username |-> { <<"z">> }]

Assign ==
    /\ pc = "idle"
    /\ assigns < MaxAssign
    /\ \E k \in 1..Len(datasets), f \in DOMAIN AssignValues :
        \E v \in AssignValues[f] :
            datasets' = [datasets EXCEPT ![k][f] = v]
    /\ assigns' = assigns + 1
    /\ UNCHANGED <<constructed, derived, uploadVars, checkVars>>

InitAssign ==
    /\ Constructed(NotebookArgs)
    /\ UploadNotCalled
    /\ CheckNotRun

NextAssign ==
    \/ Assign
    \/ upload_datasets

SpecAssign == InitAssign /\ [][NextAssign]_vars

---------------------------------------------------------------------------
(* The check cell: the loop over downloaded_dataset["train"].  The split is   *)
(* streamed, so the loop sees its records one at a time.                      *)

first_k == 3

\* The input_ids a record of the split may hold.
TokenIds == { <<1>>, <<2, 3>>, <<1, 2, 3>> }

Records == [input_ids : TokenIds]

\* tokenizer.decode(input_ids): the collaborator's answer for these ids.
decode(input_ids) == [decoded_from |-> input_ids]

\* `for data_item in iter(downloaded_dataset["train"]):`
CheckFor ==
    /\ cpc = "for"
    /\ \/ /\ pos < Len(downloaded_dataset.train)
          /\ pos' = pos + 1
          /\ cpc' = "body"
       \/ /\ pos >= Len(downloaded_dataset.train)
          /\ cpc' = "done"
          /\ UNCHANGED pos
    /\ UNCHANGED <<downloaded_dataset, i, printed, nameVars, uploadVars>>

\* `i += 1` and `if i >= first_k: break`
CheckBreak ==
    /\ cpc = "body"
    /\ i' = i + 1
    /\ cpc' = IF i' >= first_k THEN "done" ELSE "print"
    /\ UNCHANGED <<downloaded_dataset, pos, printed, nameVars, uploadVars>>

\* The decode and the print of the current data_item.
CheckPrint ==
    /\ cpc = "print"
    /\ LET data_item == downloaded_dataset.train[pos]
           input_ids == data_item.input_ids
           decoded == decode(input_ids)
       IN printed' = Append(printed, [n_tokens |-> Len(input_ids), decoded |-> decoded])
    /\ cpc' = "for"
    /\ UNCHANGED <<downloaded_dataset, i, pos, nameVars, uploadVars>>

InitCheck ==
    /\ Constructed(<< >>)
    /\ UploadNotCalled
    /\ \E n \in 0..MaxRecords :
           \E train \in [1..n -> Records] : downloaded_dataset = [train |-> train]
    /\ cpc = "for"
    /\ i = 0
    /\ pos = 0
    /\ printed = << >>

NextCheck ==
    \/ CheckFor
    \/ CheckBreak
    \/ CheckPrint

SpecCheck == InitCheck /\ [][NextCheck]_vars

---------------------------------------------------------------------------
(* Claims about the naming properties, checked under SpecNaming. *)

WasRead(k) == derived[k] # None

\* The account a Descriptor was constructed for: the argument, or the default.
OwnerGiven(k) ==
    IF constructed[k].hugging_face_username = Omitted
    THEN DefaultUsername
    ELSE constructed[k].hugging_face_username[1]

CountOf(s, c) == Cardinality({ j \in 1..Len(s) : s[j] = c })

PileNeoXRepoId == <<"a", "l", "a", "n", "c", "o", "o", "n", "e", "y", "/", "s", "a", "e", "-", "m", "o", "n", "o", "l", "o", "g", "y", "-", "p", "i", "l", "e", "-", "u", "n", "c", "o", "p", "y", "r", "i", "g", "h", "t", "e", "d", "-", "t", "o", "k", "e", "n", "i", "z", "e", "r", "-", "E", "l", "e", "u", "t", "h", "e", "r", "A", "I", "-", "g", "p", "t", "-", "n", "e", "o", "x", "-", "2", "0", "b">>

IsNotebookExample(k) ==
    /\ constructed[k].source_path = Pile
    /\ constructed[k].tokenizer_name = NeoX
    /\ constructed[k].hugging_face_username = Omitted

\* C1: for every Descriptor whose properties were read, destination_repo_name is
\* "sae-" + source_alias + "-tokenizer-" + tokenizer_alias and destination_repo_id
\* is the owner account (the default "alancooney" when none was given) + "/" +
\* destination_repo_name; the notebook's pile / gpt-neox-20b Descriptor yields
\* "alancooney/sae-monology-pile-uncopyrighted-tokenizer-EleutherAI-gpt-neox-20b".
C1_DestinationRepoForm ==
    \A k \in 1..Len(datasets) :
        WasRead(k) =>
            LET p == derived[k][1] IN
            /\ p.destination_repo_name =
                   SaePrefix \o p.source_alias \o TokenizerInfix \o p.tokenizer_alias
            /\ p.destination_repo_id =
                   OwnerGiven(k) \o <<"/">> \o p.destination_repo_name
            /\ IsNotebookExample(k) => p.destination_repo_id = PileNeoXRepoId

C1_Witness ==
    \E k \in 1..Len(datasets) : WasRead(k) /\ IsNotebookExample(k)

\* out is inp with each "/" replaced by "-": same length, no "/" left, every
\* other character unchanged at its position.
SlashesToDashes(inp, out) ==
    /\ Len(out) = Len(inp)
    /\ \A j \in 1..Len(out) : out[j] # "/"
    /\ \A j \in 1..Len(inp) : out[j] = (IF inp[j] = "/" THEN "-" ELSE inp[j])

\* C2: source_alias and tokenizer_alias of every Descriptor read are the
\* source_path and the tokenizer_name with each "/" replaced by "-", whatever the
\* number of "/" in them (none, one, several, the empty string).
C2_AliasesReplaceEverySlash ==
    \A k \in 1..Len(datasets) :
        WasRead(k) =>
            /\ SlashesToDashes(datasets[k].source_path, derived[k][1].source_alias)
            /\ SlashesToDashes(datasets[k].tokenizer_name, derived[k][1].tokenizer_alias)

C2_Witness ==
    \E k \in 1..Len(datasets) :
        /\ WasRead(k)
        /\ CountOf(datasets[k].source_path, "/") >= 2
        /\ datasets[k].tokenizer_name = << >>

SameOwner(k, l) ==
    datasets[k].hugging_face_username = datasets[l].hugging_face_username

SameAliases(k, l) ==
    /\ derived[k][1].source_alias = derived[l][1].source_alias
    /\ derived[k][1].tokenizer_alias = derived[l][1].tokenizer_alias

Collide(k, l) ==
    /\ WasRead(k) /\ WasRead(l)
    /\ SameOwner(k, l)
    /\ derived[k][1].destination_repo_id = derived[l][1].destination_repo_id

\* TokenizerInfix without its last character: "-tokenizer".
InfixHead == SubSeq(TokenizerInfix, 1, Len(TokenizerInfix) - 1)

\* C7 as claimed: two Descriptors of one owner have the same destination_repo_id
\* only if their source aliases are equal and their tokenizer aliases are equal.
C7_CollideOnlyOnEqualAliases ==
    \A k, l \in 1..Len(datasets) : Collide(k, l) => SameAliases(k, l)

\* C7 as amended: two Descriptors of one owner, neither of whose source aliases
\* contains the text "-tokenizer", have the same destination_repo_id only if
\* their source aliases are equal and their tokenizer aliases are equal.
C7_CollideOnlyOnEqualAliasesWithoutInfix ==
    \A k, l \in 1..Len(datasets) :
        ( /\ Collide(k, l)
          /\ ~Contains(derived[k][1].source_alias, InfixHead)
          /\ ~Contains(derived[l][1].source_alias, InfixHead) )
        => SameAliases(k, l)

C7_Witness ==
    \E k, l \in 1..Len(datasets) :
        /\ Collide(k, l)
        /\ datasets[k].source_path # datasets[l].source_path
        /\ ~Contains(derived[k][1].source_alias, InfixHead)
        /\ ~Contains(derived[l][1].source_alias, InfixHead)

SameIdentity(k, l) ==
    /\ datasets[k].source_path = datasets[l].source_path
    /\ datasets[k].tokenizer_name = datasets[l].tokenizer_name
    /\ SameOwner(k, l)

\* C8: two Descriptors with the same source_path, tokenizer_name and owner have
\* the same four derived names, whatever their data_dir and data_files are.
C8_NamingIgnoresFilters ==
    \A k, l \in 1..Len(datasets) :
        (WasRead(k) /\ WasRead(l) /\ SameIdentity(k, l)) => derived[k] = derived[l]

C8_Witness ==
    \E k, l \in 1..Len(datasets) :
        /\ WasRead(k) /\ WasRead(l) /\ SameIdentity(k, l)
        /\ datasets[k].data_dir = None /\ datasets[l].data_dir # None
        /\ datasets[k].data_files # None /\ datasets[l].data_files = None

---------------------------------------------------------------------------
(* Claims about upload_datasets, checked under Spec. *)

\* The collaborator calls of one job, in the order of the loop body.
JobCalls == <<"AutoTokenizer.from_pretrained", "TextDataset", "push_to_hugging_face_hub">>

\* The job and the step within the job that the p-th call of a run belongs to,
\* if every job makes its three calls in turn.
JobOf(p) == ((p - 1) \div Len(JobCalls)) + 1
StepOf(p) == ((p - 1) % Len(JobCalls)) + 1

\* The arguments of call c are those the Descriptor d asks for.
ArgsAreOf(c, d) ==
    /\ c.fn = "AutoTokenizer.from_pretrained" => c.args = <<d.tokenizer_name>>
    /\ c.fn = "TextDataset" =>
          /\ c.args.dataset_path = d.source_path
          /\ c.args.tokenizer = [pretrained |-> d.tokenizer_name]
          /\ c.args.dataset_files = d.data_files
          /\ c.args.dataset_dir = d.data_dir
    /\ c.fn = "push_to_hugging_face_hub" => c.args.repo_id = destination_repo_id(d)

\* The pushes completed when p calls have been made.
PushesDone(p) ==
    Cardinality({ q \in 1..p : calls[q].fn = "push_to_hugging_face_hub" /\ calls[q].ok })

\* C3: the calls of a run are those of job 1, then job 2, ... in input order; within
\* a job tokenizer resolution, dataset build, push to the job's destination_repo_id;
\* and a call for a job is made only when every call before it has returned and the
\* pushes of all earlier jobs are on the hub.
C3_JobsInOrderOneAtATime ==
    /\ \A p \in 1..Len(calls) :
        /\ calls[p].fn = JobCalls[StepOf(p)]
        /\ calls[p].job = JobOf(p)
        /\ JobOf(p) <= Len(datasets)
        /\ ArgsAreOf(calls[p], datasets[JobOf(p)])
        /\ p < Len(calls) => calls[p].ok
        /\ PushesDone(p - 1) = JobOf(p) - 1
    /\ Len(hub) = PushesDone(Len(calls))
    /\ \A j \in 1..Len(hub) : hub[j].repo_id = destination_repo_id(datasets[j])

C3_Witness ==
    /\ pc = "returned"
    /\ Len(datasets) >= 2
    /\ Len(calls) = Len(JobCalls) * Len(datasets)
    /\ destination_repo_id(datasets[1]) # destination_repo_id(datasets[2])
    /\ datasets[1].tokenizer_name # datasets[2].tokenizer_name

\* What holds from the moment a collaborator call has failed.
FailedAtJob ==
    /\ \A p \in 1..Len(calls) : ~calls[p].ok => (p = Len(calls) /\ pc = "raised")
    /\ (pc = "raised") = (error # None)
    /\ pc = "raised" =>
          /\ calls # << >>
          /\ ~calls[Len(calls)].ok
          /\ error = Raised(calls[Len(calls)].fn)
          /\ calls[Len(calls)].job = job
          /\ \A p \in 1..Len(calls) :
                /\ calls[p].job <= job
                /\ calls[p].fn \in { JobCalls[n] : n \in 1..Len(JobCalls) }
          /\ Len(hub) = job - 1
          /\ \A j \in 1..Len(hub) : hub[j].repo_id = destination_repo_id(datasets[j])

\* C4: a failed call is the last call of the run and its exception leaves
\* upload_datasets; nothing is called for the later jobs or again for the failing
\* one, and the pushes of the earlier jobs stay on the hub, none removed.
C4_FailureStopsRun ==
    /\ []FailedAtJob
    /\ [][ /\ SubSeq(hub', 1, Len(hub)) = hub
           /\ pc = "raised" => UNCHANGED <<pc, error, job, calls, hub, stdout>> ]_vars

C4_Witness ==
    /\ pc = "raised"
    /\ 1 < job
    /\ job < Len(datasets)
    /\ error = Raised("TextDataset")

\* C5: with an empty Descriptor list upload_datasets calls no collaborator, raises
\* nothing and runs on until it has returned.
C5_EmptyListNoCalls ==
    Len(datasets) = 0 =>
        /\ calls = << >>
        /\ hub = << >>
        /\ error = None
        /\ pc \in {"idle", "for", "returned"}
        /\ pc # "returned" => ENABLED upload_datasets

C5_Witness ==
    /\ Len(datasets) = 0
    /\ pc = "returned"

\* text holds the strings of ids one after another, in this order, from position
\* from on.
RECURSIVE InOrderFrom(_, _, _)
InOrderFrom(text, ids, from) ==
    IF ids = << >> THEN TRUE
    ELSE \E p \in from..(Len(text) + 1) :
            /\ p + Len(ids[1]) - 1 <= Len(text)
            /\ SubSeq(text, p, p + Len(ids[1]) - 1) = ids[1]
            /\ InOrderFrom(text, Tail(ids), p + Len(ids[1]))

\* C9: nothing is called before upload_datasets has printed, first of all, a text
\* that holds the destination_repo_id of every Descriptor in input order; the
\* push of job k gets the k-th of these ids.
C9_AnnouncedBeforeProcessing ==
    /\ pc = "idle" => calls = << >>
    /\ pc # "idle" =>
          /\ Len(stdout) >= 1
          /\ Len(stdout[1]) = 1
          /\ Len(repositories_updating) = Len(datasets)
          /\ \A k \in 1..Len(datasets) :
                repositories_updating[k] = destination_repo_id(datasets[k])
          /\ InOrderFrom(stdout[1][1], repositories_updating, 1)
          /\ \A p \in 1..Len(calls) :
                calls[p].fn = "push_to_hugging_face_hub" =>
                    calls[p].args.repo_id = repositories_updating[calls[p].job]

C9_Witness ==
    /\ pc = "returned"
    /\ Len(datasets) >= 2
    /\ Len(hub) = Len(datasets)
    /\ repositories_updating[1] # repositories_updating[2]

---------------------------------------------------------------------------
(* Claim about the fields of a Descriptor, checked under SpecAssign. *)

\* The fields of Descriptor k have the values given to its constructor.
AsConstructed(k) ==
    /\ datasets[k].source_path = constructed[k].source_path
    /\ datasets[k].tokenizer_name = constructed[k].tokenizer_name
    /\ datasets[k].data_dir = constructed[k].data_dir
    /\ datasets[k].data_files = constructed[k].data_files
    /\ datasets[k].hugging_face_username = OwnerGiven(k)

\* C6 as claimed: every field of every Descriptor has, in every state, the value
\* given at construction; an assignment does not change it.
C6_FieldsAsConstructed ==
    \A k \in 1..Len(datasets) : AsConstructed(k)

\* C6 as amended: a Descriptor has the field values given at construction until
\* a field is assigned, an assignment replaces the value of the one field it
\* names, and no step of upload_datasets changes a field.
C6_FieldsChangeOnlyByAssignment ==
    /\ [](assigns = 0 => \A k \in 1..Len(datasets) : AsConstructed(k))
    /\ [][ datasets' # datasets =>
             /\ pc = "idle" /\ pc' = "idle"
             /\ assigns' = assigns + 1
             /\ \E k \in 1..Len(datasets), f \in DOMAIN AssignValues :
                    datasets' = [datasets EXCEPT ![k][f] = datasets'[k][f]] ]_vars

C6_Witness ==
    /\ pc = "returned"
    /\ assigns > 0
    /\ datasets[1].source_path # constructed[1].source_path
    /\ hub # << >>
    /\ hub[1].repo_id = destination_repo_id(datasets[1])

---------------------------------------------------------------------------
(* Claim about the check cell, checked under SpecCheck. *)

Min(a, b) == IF a <= b THEN a ELSE b

\* What decoding and printing the first n records of the split prints.
PrintedFirst(n) ==
    [k \in 1..n |->
        [n_tokens |-> Len(downloaded_dataset.train[k].input_ids),
         decoded |-> decode(downloaded_dataset.train[k].input_ids)]]

\* C10: when the loop is over, it has printed exactly the first first_k records of
\* the split, or all of them when the split has fewer than first_k.
C10_PrintsFirstK ==
    cpc = "done" =>
        printed = PrintedFirst(Min(first_k, Len(downloaded_dataset.train)))

===========================================================================
